---- MODULE Spec2Model ----
(***************************************************************************)
(* A model of the LearnMode session controller (queue, context cache,      *)
(* background prefetch) of src/components/LearnMode.tsx and of the         *)
(* spaced-repetition progress update of src/App.tsx.                       *)
(*                                                                         *)
(* Time is counted in ticks of TickMs milliseconds (one cache expiry       *)
(* window), so that timestamps stay small; every duration of the code is   *)
(* converted with the code's own constants.                                *)
(***************************************************************************)
EXTENDS Integers, Sequences, FiniteSets, TLC

(* ------------------------------ bounds --------------------------------- *)
NItems == 4
MaxNow == 1
MaxSessions == 2
MaxPractice == 2
MaxPrefetchTasks == 2
MaxStarts == 2

(* ------------------------- program constants --------------------------- *)
CACHE_EXPIRY_MS == 3600 * 1000
INITIAL_BATCH_SIZE == 3
TOTAL_PREFETCH_TARGET == 10
BACKGROUND_BATCH_SIZE == 3
PREFETCH_THRESHOLD == 3
MS_PER_DAY == 24 * 60 * 60 * 1000
MAX_MASTERY == 5
DEFAULT_TARGET == 10
intervals == <<0, 1, 3, 7, 14, 30>>

TickMs == CACHE_EXPIRY_MS
ExpiryTicks == CACHE_EXPIRY_MS \div TickMs
DayTicks == MS_PER_DAY \div TickMs

(* ------------------------------ values --------------------------------- *)
Items == 1..NItems
DEFAULT_TOPIC == "General Daily Conversation"
TOPIC_OPTIONS == {"General Daily Conversation", "Travel"}
TargetChoices == {0, 2}
Undefined == -1
Null == 0

NoCtx == [topic |-> "none", by |-> "none"]
NoEntry == [context |-> NoCtx, topic |-> "none", timestamp |-> -1]
\* a stored text JSON.parse (or the destructuring of its result) throws on
Corrupt == [context |-> NoCtx, topic |-> "corrupt", timestamp |-> -1]
\* the context read from a parsed entry that has no context field
UndefCtx == [topic |-> "none", by |-> "undefined"]
EmptyMap == [i \in Items |-> NoCtx]
EmptyStorage == [i \in Items |-> NoEntry]

Min(a, b) == IF a < b THEN a ELSE b
Max(a, b) == IF a > b THEN a ELSE b

VARIABLES
  mode,              \* App: "DASHBOARD" or "LEARN"
  corpus,            \* App: [Items -> CorpusItem]
  now,               \* Date.now(), in ticks
  localStorage,      \* persisted per-item cache entries
  learningQueue, currentIndex, contextCache, isInitializing,
  isPrefetchingRef, isLoading,
  sessionTarget, initialTarget, sessionProgress, isSessionComplete,
  topic, showResult,
  initTasks,         \* initSession calls that have not settled (or still have requests out)
  guardTimers,       \* pending setTimeout(..., 100) callbacks of initSession
  prefetchTasks,     \* prefetchMoreIfNeeded calls suspended in generateContextsForItems
  regenTasks,        \* regenerateCurrentItem calls awaiting generateLearnContext
  sessions,          \* number of initSession calls so far
  failedSettled,     \* items whose background generation failed in a settled batch of this session
  retried,           \* items requested again by the prefetch pipeline after that
  exitedBy,          \* how LearnMode was left last: "none", "button" or "queue"
  review,            \* ReviewMode: the component's state and its pending continuations
  reviewStore,       \* localStorage[CACHE_KEY] of ReviewMode
  request            \* zhipuService: one callWithRetry call and what its attempts met

appVars == <<mode, corpus, now, localStorage, exitedBy>>
sessVars == <<learningQueue, currentIndex, contextCache, isInitializing,
              sessionProgress, isSessionComplete>>
settingVars == <<sessionTarget, initialTarget, topic>>
asyncVars == <<initTasks, guardTimers, prefetchTasks, regenTasks>>
histVars == <<failedSettled, retried>>
reviewVars == <<review, reviewStore>>
vars == <<mode, corpus, now, localStorage, learningQueue, currentIndex,
          contextCache, isInitializing, isPrefetchingRef, isLoading,
          sessionTarget, initialTarget, sessionProgress, isSessionComplete,
          topic, showResult, initTasks, guardTimers, prefetchTasks,
          regenTasks, sessions, failedSettled, retried,
          exitedBy,
          review, reviewStore, request>>

(* --------------------------- pure helpers ------------------------------ *)
RemoveAt(s, k) == SubSeq(s, 1, k - 1) \o SubSeq(s, k + 1, Len(s))

\* Array.prototype.slice(a, b) with 0-based bounds
Slice(s, a, b) == SubSeq(s, a + 1, Min(b, Len(s)))

\* Array.prototype.findIndex(item => item.id === id), 0-based, -1 when absent
FindIndex(q, id) ==
  IF \E k \in 1..Len(q) : q[k] = id
  THEN (CHOOSE k \in 1..Len(q) : q[k] = id /\ \A j \in 1..(k - 1) : q[j] # id) - 1
  ELSE -1

\* number of elements of an already sorted sequence that rank before level m
CountBelow(c, r, m) == Cardinality({k \in 1..Len(r) : c[r[k]].masteryLevel <= m})

\* Array.prototype.sort((a, b) => a.masteryLevel - b.masteryLevel): stable
RECURSIVE SortByMastery(_, _)
SortByMastery(c, s) ==
  IF s = <<>> THEN <<>>
  ELSE LET init == SubSeq(s, 1, Len(s) - 1)
           x == s[Len(s)]
           r == SortByMastery(c, init)
           k == CountBelow(c, r, c[x].masteryLevel)
       IN SubSeq(r, 1, k) \o <<x>> \o SubSeq(r, k + 1, Len(r))

CorpusList == [i \in Items |-> i]

\* selectLearningQueue putting the items that are not due first
selectLearningQueue_OthersFirst(c, count, t1, t2) ==
  LET IsDue(i) == c[i].nextReviewDate <= t1
      IsOther(i) == c[i].nextReviewDate > t2
      dueItems == SortByMastery(c, SelectSeq(CorpusList, IsDue))
      otherItems == SortByMastery(c, SelectSeq(CorpusList, IsOther))
      combined == otherItems \o dueItems
  IN Slice(combined, 0, Max(count, TOTAL_PREFETCH_TARGET * 2))

\* t1 and t2 are the two readings of Date.now() (lines 88 and 93)
selectLearningQueue(c, count, t1, t2) ==
  LET IsDue(i) == c[i].nextReviewDate <= t1
      IsOther(i) == c[i].nextReviewDate > t2
      dueItems == SortByMastery(c, SelectSeq(CorpusList, IsDue))
      otherItems == SortByMastery(c, SelectSeq(CorpusList, IsOther))
      combined == dueItems \o otherItems
  IN Slice(combined, 0, Max(count, TOTAL_PREFETCH_TARGET * 2))

\* updateItemProgress without the lower clamp of the level
NewProgress_NoFloor(item, success, t) ==
  LET newLevel == IF success THEN Min(item.masteryLevel + 1, MAX_MASTERY)
                  ELSE item.masteryLevel - 1
      daysToAdd == IF success THEN intervals[newLevel + 1] ELSE 0
      currentPractice == IF item.practiceCount = Undefined THEN 0 ELSE item.practiceCount
  IN [masteryLevel |-> newLevel, nextReviewDate |-> t + daysToAdd * DayTicks,
      practiceCount |-> currentPractice + 1]

\* updateItemProgress taking the interval of the level before the update
NewProgress_OldInterval(item, success, t) ==
  LET newLevel == IF success THEN Min(item.masteryLevel + 1, MAX_MASTERY)
                  ELSE Max(item.masteryLevel - 1, 0)
      daysToAdd == IF success THEN intervals[item.masteryLevel + 1] ELSE 0
      currentPractice == IF item.practiceCount = Undefined THEN 0 ELSE item.practiceCount
  IN [masteryLevel |-> newLevel, nextReviewDate |-> t + daysToAdd * DayTicks,
      practiceCount |-> currentPractice + 1]

\* the record updateItemProgress builds for the item it updates (lines 209-221)
NewProgress(item, success, t) ==
  LET newLevel == IF success THEN Min(item.masteryLevel + 1, MAX_MASTERY)
                  ELSE Max(item.masteryLevel - 1, 0)
      daysToAdd == IF success THEN intervals[newLevel + 1] ELSE 0
      nextReview == t + daysToAdd * DayTicks
      currentPractice == IF item.practiceCount = Undefined THEN 0 ELSE item.practiceCount
      newPractice == currentPractice + 1
  IN \* { ...item, masteryLevel, nextReviewDate, practiceCount }
     [item EXCEPT !.masteryLevel = newLevel, !.nextReviewDate = nextReview,
                  !.practiceCount = newPractice]

\* updateItemProgress whose map callback updates every item
updateItemProgress_AllItems(c, id, success, t) ==
  [i \in DOMAIN c |-> NewProgress(c[i], success, t)]

\* App.updateItemProgress(id, success): the corpus after setCorpus
updateItemProgress(c, id, success, t) ==
  [i \in DOMAIN c |-> IF i # id THEN c[i] ELSE NewProgress(c[i], success, t)]

\* the validity test accepting an entry of exactly the expiry age
CacheHit_Inclusive(entry, t) ==
  /\ entry # NoEntry
  /\ entry # Corrupt
  /\ entry.topic = t
  /\ entry.timestamp # Undefined
  /\ now - entry.timestamp <= ExpiryTicks

\* the validity test of a persisted entry (LearnMode.tsx:117 and :178)
CacheHit(entry, t) ==
  /\ entry # NoEntry
  /\ entry # Corrupt
  /\ entry.topic = t
  /\ entry.timestamp # Undefined         \* NaN < CACHE_EXPIRY_MS is false
  /\ now - entry.timestamp < ExpiryTicks

\* the store after the lookup of item i: only the catch of JSON.parse removes
\* the entry (LearnMode.tsx:122-124 and :181-183)
Lookup(ls, i) == IF ls[i] = Corrupt THEN [ls EXCEPT ![i] = NoEntry] ELSE ls

\* an entry written with a time stamp that is already of the expiry age
NewEntry_StaleStamp(ctx, t) ==
  [context |-> ctx, topic |-> t, timestamp |-> now - ExpiryTicks]

\* the text localStorage.setItem writes after a generation (lines 133-137,
\* 188-192), as the object JSON.parse reads back from it
NewEntry(ctx, t) == [context |-> ctx, topic |-> t, timestamp |-> now]
NewCtx(t, who) == [topic |-> t, by |-> who]

\* generateContextsForItems from position pos up to its next await (or its end):
\* persisted hits are copied to the results without a request
RECURSIVE RunBatch(_, _, _, _, _)
RunBatch(items, pos, results, t, ls) ==
  IF pos > Len(items) THEN [pos |-> pos, results |-> results, storage |-> ls]
  ELSE IF CacheHit(ls[items[pos]], t)
       THEN RunBatch(items, pos + 1,
                     [results EXCEPT ![items[pos]] = ls[items[pos]].context], t, ls)
       ELSE [pos |-> pos, results |-> results, storage |-> Lookup(ls, items[pos])]

Merge(cache, results) ==
  [i \in Items |-> IF results[i] # NoCtx THEN results[i] ELSE cache[i]]

currentItem ==
  IF currentIndex < Len(learningQueue) THEN learningQueue[currentIndex + 1] ELSE Null
\* contextCache.get(currentItem.id) || null
context ==
  IF currentItem # Null /\ contextCache[currentItem] # UndefCtx
  THEN contextCache[currentItem] ELSE NoCtx

(* ----------------------------- initial state --------------------------- *)
\* corpora the app can have loaded from its store
\* the corpus LearnMode is entered with: items of several levels, due and new
InitCorpora ==
  { [i \in Items |-> [masteryLevel |-> (2 * i) % 6,
                      nextReviewDate |-> i % 2,
                      practiceCount |-> IF i = 1 THEN Undefined ELSE i]] }

\* corpora for the progress update: every mastery level occurs
ProgressCorpora ==
  { [i \in Items |-> [masteryLevel |-> (i + d) % (MAX_MASTERY + 1),
                      nextReviewDate |-> 0,
                      practiceCount |-> IF i = 1 THEN Undefined ELSE 0]] : d \in {0, 3} }

\* values of the service layer (zhipuService, src/App.tsx:396-849)
DEFAULT_RETRIES == 3
DEFAULT_DELAY == 2000
NoError == [type |-> "none", status |-> 0, body |-> "none"]
\* no callWithRetry call under way; apiKey: VITE_ZHIPU_API_KEY is set
IdleRequest ==
  [status |-> "idle", apiKey |-> TRUE, retries |-> 0, delay |-> 0, calls |-> 0,
   errors |-> <<>>, error |-> NoError]

\* values of ReviewMode (src/unnamed/part_000)
\* the literal "日常对话" of useState, in ASCII
REVIEW_TOPIC == "RiChangDuiHua"
REVIEW_TARGET == 5
DEFAULT_COUNT == 5
ReviewTargetChoices == {3, 5}

\* a scenario is kept as its topic and its highlights (one phrase each)
NoScenario == [topic |-> "none", highlights |-> <<>>]
NoSession == [scenario |-> NoScenario, topic |-> "none", timestamp |-> Undefined]
\* a stored text JSON.parse (or the read of scenario.highlights) throws on
CorruptSession == [scenario |-> NoScenario, topic |-> "corrupt", timestamp |-> Undefined]
NoNext == [scenario |-> NoScenario, phrases |-> <<>>, topic |-> "none"]
\* a call of generateContextScenario that has not settled, with the topic and
\* session target of the render whose prefetchNextScenario the caller closed over
NoCall == [topic |-> "none", items |-> <<>>, cTopic |-> "none", cTarget |-> 0]

ReviewUnmounted ==
  [step |-> "unmounted", scenario |-> NoScenario, feedback |-> FALSE,
   selectedPhrases |-> <<>>, topic |-> REVIEW_TOPIC,
   sessionTarget |-> REVIEW_TARGET, nextScenarioCache |-> NoNext,
   isPrefetchingRef |-> FALSE,
   start |-> NoCall,          \* handleStart suspended in generateContextScenario
   cacheWait |-> NoScenario,  \* initSession suspended in its 600 ms wait
   timers |-> {},             \* pending setTimeout(prefetchNextScenario) callbacks
   prefetch |-> NoCall,       \* prefetchNextScenario suspended in generateContextScenario
   starts |-> 0]              \* number of handleStart calls so far

ReviewIdle ==
  /\ review = ReviewUnmounted
  /\ reviewStore = NoSession

\* React's initial state of LearnMode (the useState/useRef initialisers)
Unmounted ==
  /\ learningQueue = <<>>
  /\ currentIndex = 0
  /\ contextCache = EmptyMap
  /\ isInitializing = TRUE
  /\ isPrefetchingRef = FALSE
  /\ isLoading = FALSE
  /\ sessionTarget = DEFAULT_TARGET
  /\ initialTarget = DEFAULT_TARGET
  /\ sessionProgress = 0
  /\ isSessionComplete = FALSE
  /\ topic = DEFAULT_TOPIC
  /\ showResult = FALSE
  /\ initTasks = <<>>
  /\ guardTimers = 0
  /\ prefetchTasks = <<>>
  /\ regenTasks = {}
  /\ sessions = 0
  /\ failedSettled = {}
  /\ retried = {}

Init ==
  /\ mode = "DASHBOARD"
  /\ exitedBy = "none"
  /\ corpus \in InitCorpora
  /\ now = 0
  /\ localStorage = EmptyStorage
  /\ Unmounted
  /\ request = IdleRequest
  /\ ReviewIdle

(* ------------------------- background prefetch ------------------------- *)
\* What the prefetch effect of lines 282-286 sees after a commit: queue,
\* index, cache and topic are the committed values, ref is
\* isPrefetchingRef.current, storage the persisted entries, tasks the
\* background batches in flight.
Committed(q, idx, cache, t, ref, ls, tasks, failed, retr, sess) ==
  [queue |-> q, index |-> idx, cache |-> cache, topic |-> t, ref |-> ref,
   storage |-> ls, tasks |-> tasks, failed |-> failed, retried |-> retr,
   session |-> sess]

\* the item a batch asks the generator for again after a settled failure
Retries(task, pos, failed, sess) ==
  IF task.session = sess /\ pos <= Len(task.items) /\ task.items[pos] \in failed
  THEN {task.items[pos]} ELSE {}

\* lines 224-242 of prefetchMoreIfNeeded
itemsToFetch(s) ==
  LET keys == {i \in Items : s.cache[i] # NoCtx}
      remainingInQueue == Len(s.queue) - s.index - 1
      prefetchedCount ==
        Cardinality({id \in keys : FindIndex(s.queue, id) > s.index})
      totalCached == Cardinality(keys)
      needMore == totalCached < TOTAL_PREFETCH_TARGET
      startIdx == s.index + prefetchedCount + 1
      endIdx == Min(startIdx + BACKGROUND_BATCH_SIZE, Len(s.queue))
      NotCached(i) == s.cache[i] = NoCtx
  IN IF (prefetchedCount < PREFETCH_THRESHOLD \/ needMore)
        /\ remainingInQueue > prefetchedCount
     THEN SelectSeq(Slice(s.queue, startIdx, endIdx), NotCached)
     ELSE <<>>

\* prefetchMoreIfNeeded up to its await.  When every item of the batch is a
\* persisted hit nothing is awaited: the batch settles at once, the cache
\* changes and the effect runs again.
RECURSIVE prefetchMoreIfNeeded(_)
prefetchMoreIfNeeded(s) ==
  LET items == itemsToFetch(s)
      r == RunBatch(items, 1, EmptyMap, s.topic, s.storage)
      task == [topic |-> s.topic, items |-> items, pos |-> r.pos,
               results |-> r.results, failed |-> {}, session |-> s.session]
  IN IF s.ref \/ items = <<>> THEN s
     ELSE IF r.pos > Len(items)
     THEN prefetchMoreIfNeeded([s EXCEPT !.cache = Merge(s.cache, r.results),
                                         !.ref = FALSE,
                                         !.storage = r.storage])
     ELSE [s EXCEPT !.ref = TRUE,
                    !.storage = r.storage,
                    !.tasks = Append(s.tasks, task),
                    !.retried = s.retried
                                \cup Retries(task, r.pos, s.failed, s.session)]

\* the effect of lines 282-286, run after a commit that changed
\* currentIndex, isInitializing or prefetchMoreIfNeeded
PrefetchEffect(s, initializing) ==
  IF ~initializing /\ s.index < Len(s.queue) THEN prefetchMoreIfNeeded(s) ELSE s

\* a commit followed by its effect
CommitAndEffect(s, initializing) ==
  LET e == PrefetchEffect(s, initializing)
  IN /\ Len(e.tasks) <= MaxPrefetchTasks
     /\ contextCache' = e.cache
     /\ localStorage' = e.storage
     /\ isPrefetchingRef' = e.ref
     /\ prefetchTasks' = e.tasks
     /\ retried' = e.retried

(* ------------------------------ initSession ---------------------------- *)
\* the contexts initSession installs once every promise of the first batch
\* resolved: if (r.context) contexts.set(r.id, r.context)
BatchContexts(batch, got) ==
  [i \in Items |-> IF (\E k \in 1..Len(batch) : batch[k] = i) /\ got[i] # UndefCtx
                   THEN got[i] ELSE NoCtx]

\* initSession(currentTopic, targetCount) up to its await of Promise.all.
\* Sets the session state; the caller says what happens to the other variables.
initSession(currentTopic, targetCount) ==
  LET queue == selectLearningQueue(corpus, targetCount, now, now)
      firstBatch == Slice(queue, 0, Min(INITIAL_BATCH_SIZE, Len(queue)))
      batchSet == {firstBatch[k] : k \in 1..Len(firstBatch)}
      hits == {i \in batchSet : CacheHit(localStorage[i], currentTopic)}
      got == [i \in Items |-> IF i \in hits THEN localStorage[i].context ELSE NoCtx]
      looked == [i \in Items |-> IF i \in batchSet THEN Lookup(localStorage, i)[i]
                                 ELSE localStorage[i]]
      Done(cache) == Committed(queue, 0, cache, currentTopic, isPrefetchingRef,
                               looked, prefetchTasks, {}, {}, sessions + 1)
  IN /\ currentIndex' = 0
     /\ sessionProgress' = 0
     /\ isSessionComplete' = FALSE
     /\ learningQueue' = queue
     /\ sessions' = sessions + 1
     /\ failedSettled' = {}
     /\ IF queue = <<>>
        THEN /\ isInitializing' = FALSE
             /\ CommitAndEffect(Done(EmptyMap), FALSE)
             /\ UNCHANGED <<initTasks, guardTimers>>
        ELSE IF hits = batchSet
        THEN \* nothing to generate: the continuation runs in the same task
             /\ isInitializing' = FALSE
             /\ CommitAndEffect(Done(BatchContexts(firstBatch, got)), FALSE)
             /\ guardTimers' = guardTimers + 1
             /\ UNCHANGED initTasks
        ELSE /\ isInitializing' = TRUE
             /\ CommitAndEffect(Done(EmptyMap), TRUE)
             /\ initTasks' = Append(initTasks,
                                    [topic |-> currentTopic, batch |-> firstBatch,
                                     pending |-> batchSet \ hits, got |-> got,
                                     rejected |-> FALSE])
             /\ UNCHANGED guardTimers

\* App renders LearnMode; its mount effect calls initSession(topic, sessionTarget)
EnterLearn ==
  /\ mode = "DASHBOARD"
  /\ sessions = 0
  /\ mode' = "LEARN"
  /\ initSession(topic, sessionTarget)
  /\ UNCHANGED <<request, review, reviewStore, corpus, now, exitedBy, isLoading,
                 sessionTarget, initialTarget, topic, showResult, regenTasks>>

\* generateLearnContext of one first-batch item settles
InitGenDone(k, item, ok) ==
  LET task == initTasks[k]
      ctx == NewCtx(task.topic, "init")
      got1 == IF ok THEN [task.got EXCEPT ![item] = ctx] ELSE task.got
      ls1 == IF ok THEN [localStorage EXCEPT ![item] = NewEntry(ctx, task.topic)]
             ELSE localStorage
      left == task.pending \ {item}
      rejected1 == task.rejected \/ ~ok
      task1 == [task EXCEPT !.pending = left, !.got = got1, !.rejected = rejected1]
  IN /\ mode = "LEARN"
     /\ k \in 1..Len(initTasks)
     /\ item \in task.pending
     /\ initTasks' = IF left = {} THEN RemoveAt(initTasks, k)
                     ELSE [initTasks EXCEPT ![k] = task1]
     /\ IF left = {} /\ ~rejected1
        THEN \* Promise.all resolved: lines 206-217
             /\ isInitializing' = FALSE
             /\ guardTimers' = guardTimers + 1
             /\ CommitAndEffect(
                  Committed(learningQueue, currentIndex,
                            BatchContexts(task.batch, got1), topic,
                            isPrefetchingRef, ls1, prefetchTasks,
                            failedSettled, retried, sessions), FALSE)
        ELSE /\ localStorage' = ls1
             /\ UNCHANGED <<contextCache, isInitializing, guardTimers,
                            isPrefetchingRef, prefetchTasks, retried>>
     /\ UNCHANGED <<request, review, reviewStore, mode, exitedBy, corpus, now, learningQueue, currentIndex,
                    sessionProgress, isSessionComplete, isLoading, settingVars,
                    showResult, regenTasks, sessions, failedSettled>>

\* the setTimeout callback of initSession (line 215)
GuardTimerFires ==
  /\ mode = "LEARN"
  /\ guardTimers > 0
  /\ guardTimers' = guardTimers - 1
  /\ isPrefetchingRef' = FALSE
  /\ UNCHANGED <<request, review, reviewStore, appVars, sessVars, isLoading, settingVars, showResult,
                 initTasks, prefetchTasks, regenTasks, sessions, histVars>>

\* a batch whose failure throws away what it had generated before
BatchResults_FailureClears(results, item, ctx, ok) ==
  IF ok THEN [results EXCEPT ![item] = ctx] ELSE EmptyMap

\* the results map of generateContextsForItems after the request for item
\* settled: results.set on success, only console.error on failure (128-139)
BatchResults(results, item, ctx, ok) ==
  IF ok THEN [results EXCEPT ![item] = ctx] ELSE results

\* the request a background batch awaits settles; the batch goes on to its
\* next await or settles itself (lines 128-142, then 248-255)
PrefetchGenDone(k, ok) ==
  LET task == prefetchTasks[k]
      item == task.items[task.pos]
      ctx == NewCtx(task.topic, "prefetch")
      ls1 == IF ok THEN [localStorage EXCEPT ![item] = NewEntry(ctx, task.topic)]
             ELSE localStorage
      results1 == BatchResults(task.results, item, ctx, ok)
      failed1 == IF ok THEN task.failed ELSE task.failed \cup {item}
      r == RunBatch(task.items, task.pos + 1, results1, task.topic, ls1)
      task1 == [task EXCEPT !.pos = r.pos, !.results = r.results, !.failed = failed1]
      failedSettled1 == IF task.session = sessions
                        THEN failedSettled \cup failed1 ELSE failedSettled
  IN /\ mode = "LEARN"
     /\ k \in 1..Len(prefetchTasks)
     /\ IF r.pos > Len(task.items)
        THEN /\ failedSettled' = failedSettled1
             /\ CommitAndEffect(
                  Committed(learningQueue, currentIndex,
                            Merge(contextCache, r.results), topic, FALSE,
                            r.storage,
                            RemoveAt(prefetchTasks, k), failedSettled1, retried,
                            sessions), isInitializing)
        ELSE /\ localStorage' = r.storage
             /\ prefetchTasks' = [prefetchTasks EXCEPT ![k] = task1]
             /\ retried' = retried \cup Retries(task1, r.pos, failedSettled, sessions)
             /\ UNCHANGED <<contextCache, isPrefetchingRef, failedSettled>>
     /\ UNCHANGED <<request, review, reviewStore, mode, exitedBy, corpus, now, learningQueue, currentIndex,
                    isInitializing, sessionProgress, isSessionComplete, isLoading,
                    settingVars, showResult, initTasks, guardTimers, regenTasks,
                    sessions>>

(* ------------------------------ the learner ---------------------------- *)
\* App leaves LearnMode: the component unmounts and its state is discarded
Unmount(by) ==
  /\ mode' = "DASHBOARD"
  /\ exitedBy' = by
  /\ learningQueue' = <<>>
  /\ currentIndex' = 0
  /\ contextCache' = EmptyMap
  /\ isInitializing' = TRUE
  /\ isPrefetchingRef' = FALSE
  /\ isLoading' = FALSE
  /\ sessionTarget' = DEFAULT_TARGET
  /\ initialTarget' = DEFAULT_TARGET
  /\ sessionProgress' = 0
  /\ isSessionComplete' = FALSE
  /\ topic' = DEFAULT_TOPIC
  /\ showResult' = FALSE
  /\ initTasks' = <<>>
  /\ guardTimers' = 0
  /\ prefetchTasks' = <<>>
  /\ regenTasks' = {}
  /\ failedSettled' = {}
  /\ retried' = {}

\* the result buttons staying rendered on the completion screen
ShowsItem_AlsoComplete ==
  /\ mode = "LEARN" /\ ~isInitializing /\ ~isLoading /\ context # NoCtx

\* the answer controls and the result buttons are rendered (lines 689-853)
ShowsItem == /\ mode = "LEARN" /\ ~isSessionComplete
             /\ ~isInitializing /\ ~isLoading /\ context # NoCtx

\* submitText, or the recorder's onstop: the result comparison is shown
submitText ==
  /\ ShowsItem
  /\ ~showResult
  /\ showResult' = TRUE
  /\ UNCHANGED <<request, review, reviewStore, appVars, sessVars, isPrefetchingRef, isLoading, settingVars,
                 asyncVars, sessions, histVars>>

\* regenerateCurrentItem answering from a valid persisted entry
regenerateCurrentItem_UsesCache ==
  IF CacheHit(localStorage[currentItem], topic)
  THEN isLoading' = FALSE /\ regenTasks' = regenTasks
  ELSE /\ isLoading' = TRUE
       /\ regenTasks' = regenTasks \cup {[item |-> currentItem, topic |-> topic]}

\* regenerateCurrentItem up to its await
regenerateCurrentItem ==
  /\ isLoading' = TRUE
  /\ regenTasks' = regenTasks \cup {[item |-> currentItem, topic |-> topic]}

\* the completion test without its sessionTarget > 0 conjunct
TargetReached_AnyTarget(newProgress) == newProgress >= sessionTarget

\* the completion test of line 532
TargetReached(newProgress) == sessionTarget > 0 /\ newProgress >= sessionTarget

\* the end of the queue showing the completion screen instead of leaving
queueFinished_Completes ==
  /\ isSessionComplete' = TRUE
  /\ sessionProgress' = sessionProgress + 1
  /\ showResult' = FALSE
  /\ UNCHANGED <<mode, exitedBy, learningQueue, currentIndex, contextCache,
                 isInitializing, isPrefetchingRef, isLoading, settingVars,
                 asyncVars, histVars>>

\* lines 542-545: the queue is finished, handleResult calls onExit()
queueFinished == Unmount("queue")

\* the index after the current one, wrapping at the end of the queue
nextIndex_Wraps == (currentIndex + 1) % Len(learningQueue)

\* line 538
nextIndex == currentIndex + 1

\* the cursor advance re-selecting the queue from the updated corpus
advance_Reselects(ls1) ==
  /\ currentIndex' = nextIndex
  /\ learningQueue' = selectLearningQueue(
                        updateItemProgress(corpus, currentItem, TRUE, now),
                        sessionTarget, now, now)
  /\ CommitAndEffect(
       Committed(learningQueue, nextIndex, contextCache, topic,
                 isPrefetchingRef, ls1, prefetchTasks, failedSettled, retried,
                 sessions), isInitializing)

\* lines 539-541: setCurrentIndex(nextIndex), and the effect of the commit
advance(ls1) ==
  /\ currentIndex' = nextIndex
  /\ learningQueue' = learningQueue
  /\ CommitAndEffect(
       Committed(learningQueue, nextIndex, contextCache, topic,
                 isPrefetchingRef, ls1, prefetchTasks, failedSettled, retried,
                 sessions), isInitializing)

\* the failure branch counting the attempt as progress
retry_CountsProgress ==
  /\ regenerateCurrentItem
  /\ sessionProgress' = sessionProgress + 1
  /\ UNCHANGED <<currentIndex, isSessionComplete>>

\* lines 546-550: the failure branch of handleResult
retry ==
  /\ regenerateCurrentItem
  /\ UNCHANGED <<currentIndex, sessionProgress, isSessionComplete>>

handleResult(mastered) ==
  /\ ShowsItem
  /\ showResult
  /\ IF mastered
     THEN LET newProgress == sessionProgress + 1
              ls1 == [localStorage EXCEPT ![currentItem] = NoEntry]
          IN /\ corpus' = updateItemProgress(corpus, currentItem, TRUE, now)
             /\ IF TargetReached(newProgress)
                THEN /\ isSessionComplete' = TRUE
                     /\ localStorage' = ls1
                     /\ sessionProgress' = newProgress
                     /\ showResult' = FALSE
                     /\ UNCHANGED <<mode, exitedBy, learningQueue, currentIndex,
                                    contextCache, isInitializing, isPrefetchingRef,
                                    isLoading, settingVars, asyncVars, histVars>>
                ELSE IF nextIndex < Len(learningQueue)
                THEN /\ advance(ls1)
                     /\ sessionProgress' = newProgress
                     /\ showResult' = FALSE
                     /\ UNCHANGED <<mode, exitedBy, isInitializing,
                                    isSessionComplete, isLoading, settingVars,
                                    initTasks, guardTimers, regenTasks,
                                    failedSettled>>
                ELSE queueFinished /\ localStorage' = ls1
     ELSE /\ retry
          /\ showResult' = FALSE
          /\ UNCHANGED <<mode, exitedBy, corpus, localStorage, learningQueue,
                         contextCache, isInitializing, isPrefetchingRef,
                         settingVars, initTasks, guardTimers, prefetchTasks,
                         histVars>>
  /\ UNCHANGED <<request, review, reviewStore, now, sessions>>

\* the request of regenerateCurrentItem settles (lines 497-507)
RegenDone(task, ok) ==
  /\ mode = "LEARN"
  /\ task \in regenTasks
  /\ regenTasks' = regenTasks \ {task}
  /\ isLoading' = FALSE
  /\ IF ok
     THEN CommitAndEffect(
            Committed(learningQueue, currentIndex,
                      [contextCache EXCEPT ![task.item] = NewCtx(task.topic, "regen")],
                      topic, isPrefetchingRef, localStorage, prefetchTasks,
                      failedSettled, retried, sessions), isInitializing)
     ELSE UNCHANGED <<contextCache, localStorage, isPrefetchingRef,
                      prefetchTasks, retried>>
  /\ UNCHANGED <<request, review, reviewStore, mode, corpus, now, exitedBy, learningQueue, currentIndex,
                 isInitializing,
                 sessionProgress, isSessionComplete, settingVars, showResult,
                 initTasks, guardTimers, sessions, failedSettled>>

\* saveSettings with the modal's tempTopic and tempTarget
saveSettings(tempTopic, tempTarget) ==
  /\ mode = "LEARN"
  /\ ~isSessionComplete
  /\ sessionTarget' = tempTarget
  /\ initialTarget' = tempTarget
  /\ topic' = tempTopic
  /\ IF topic # tempTopic
     THEN /\ sessions < MaxSessions
          /\ initSession(tempTopic, tempTarget)
     ELSE UNCHANGED <<localStorage, sessVars, isPrefetchingRef, initTasks,
                      guardTimers, prefetchTasks, sessions, histVars>>
  /\ UNCHANGED <<request, review, reviewStore, mode, corpus, now, exitedBy, isLoading, showResult, regenTasks>>

\* the "one more set" button of the completion screen (lines 604-610)
StudyAnotherSet ==
  LET newTarget == sessionTarget + initialTarget
  IN /\ mode = "LEARN"
     /\ isSessionComplete
     /\ sessions < MaxSessions
     /\ sessionTarget' = newTarget
     /\ initSession(topic, newTarget)
     /\ UNCHANGED <<request, review, reviewStore, mode, corpus, now, exitedBy, isLoading, initialTarget,
                    topic, showResult, regenTasks>>

\* the exit buttons (lines 603 and 644)
onExit ==
  /\ mode = "LEARN"
  /\ Unmount("button")
  /\ UNCHANGED <<request, review, reviewStore, corpus, now, localStorage, sessions>>

\* the wall clock advances
Tick ==
  /\ now < MaxNow
  /\ now' = now + 1
  /\ UNCHANGED <<request, review, reviewStore, mode, exitedBy, corpus, localStorage, sessVars, isPrefetchingRef,
                 isLoading, settingVars, showResult, asyncVars, sessions, histVars>>

\* App.updateItemProgress called for any item with any outcome
UpdateProgress(id, success) ==
  /\ mode = "DASHBOARD"
  /\ (corpus[id].practiceCount = Undefined \/ corpus[id].practiceCount < MaxPractice)
  /\ corpus' = updateItemProgress(corpus, id, success, now)
  /\ UNCHANGED <<request, review, reviewStore, mode, exitedBy, now, localStorage, sessVars, isPrefetchingRef,
                 isLoading, settingVars, showResult, asyncVars, sessions, histVars>>

\* corpora of 0 to NItems items that carry their text as well
FrameCorpora ==
  { [i \in 1..n |-> [english |-> i, masteryLevel |-> (i + d) % (MAX_MASTERY + 1),
                     nextReviewDate |-> 0, practiceCount |-> 0]] :
      n \in 0..NItems, d \in {0, 3} }

\* App.updateItemProgress called with any id, in the corpus or not
UpdateAnyItem(id, success) ==
  /\ mode = "DASHBOARD"
  /\ id \in DOMAIN corpus => corpus[id].practiceCount < MaxPractice
  /\ corpus' = updateItemProgress(corpus, id, success, now)
  /\ UNCHANGED <<request, review, reviewStore, mode, exitedBy, now, localStorage, sessVars, isPrefetchingRef,
                 isLoading, settingVars, showResult, asyncVars, sessions, histVars>>

(* ---------------------------- specification ---------------------------- *)
InitSettles == \E k \in 1..MaxSessions, i \in Items, ok \in BOOLEAN : InitGenDone(k, i, ok)
PrefetchSettles == \E k \in 1..MaxPrefetchTasks, ok \in BOOLEAN : PrefetchGenDone(k, ok)
RegenSettles == \E task \in regenTasks, ok \in BOOLEAN : RegenDone(task, ok)

\* what the event loop does on its own
SystemNext ==
  \/ InitSettles
  \/ GuardTimerFires
  \/ PrefetchSettles
  \/ RegenSettles

\* what the learner does, apart from the settings
LearnerNext ==
  \/ EnterLearn
  \/ submitText
  \/ \E mastered \in BOOLEAN : handleResult(mastered)
  \/ onExit

\* one visit to LearnMode in which the learner keeps the topic
Next ==
  \/ SystemNext
  \/ LearnerNext
  \/ \E n \in TargetChoices : saveSettings(topic, n)
  \/ StudyAnotherSet

Spec == Init /\ [][Next]_vars

\* one visit to LearnMode in which the learner changes the topic and keeps the target
NextTopic ==
  \/ SystemNext
  \/ LearnerNext
  \/ \E t \in TOPIC_OPTIONS : saveSettings(t, sessionTarget)

SpecTopic == Init /\ [][NextTopic]_vars

\* the progress update alone, on corpora of every mastery level
InitProgress ==
  /\ mode = "DASHBOARD"
  /\ exitedBy = "none"
  /\ corpus \in ProgressCorpora
  /\ now = 0
  /\ localStorage = EmptyStorage
  /\ Unmounted
  /\ request = IdleRequest
  /\ ReviewIdle

NextProgress ==
  \/ \E id \in Items, success \in BOOLEAN : UpdateProgress(id, success)
  \/ Tick

SpecProgress == InitProgress /\ [][NextProgress]_vars

InitFrame ==
  /\ mode = "DASHBOARD"
  /\ exitedBy = "none"
  /\ corpus \in FrameCorpora
  /\ now = 0
  /\ localStorage = EmptyStorage
  /\ Unmounted
  /\ request = IdleRequest
  /\ ReviewIdle

NextFrame ==
  \/ \E id \in 1..(NItems + 1), success \in BOOLEAN : UpdateAnyItem(id, success)
  \/ Tick

\* the progress update on corpora of every length, with ids the corpus lacks
SpecFrame == InitFrame /\ [][NextFrame]_vars

\* corpora whose items fall due at any time up to MaxNow + 1
QueueCorpora ==
  { [i \in Items |-> [masteryLevel |-> (i + d) % (MAX_MASTERY + 1),
                      nextReviewDate |-> due[i],
                      practiceCount |-> 0]] :
      d \in {0, 3}, due \in [Items -> 0..(MaxNow + 1)] }

InitQueue ==
  /\ mode = "DASHBOARD"
  /\ exitedBy = "none"
  /\ corpus \in QueueCorpora
  /\ now = 0
  /\ localStorage = EmptyStorage
  /\ Unmounted
  /\ request = IdleRequest
  /\ ReviewIdle

\* a call of selectLearningQueue(corpus, count) whose first filter reads the
\* clock at now and whose second filter reads it at t2 (lines 88 and 93)
selectQueueCall(t2) ==
  /\ mode = "DASHBOARD"
  /\ learningQueue = <<>>
  /\ t2 \in now..MaxNow
  /\ learningQueue' = selectLearningQueue(corpus, sessionTarget, now, t2)
  /\ now' = t2
  /\ UNCHANGED <<request, review, reviewStore, mode, exitedBy, corpus, localStorage,
                 currentIndex, contextCache, isInitializing, sessionProgress,
                 isSessionComplete, isPrefetchingRef, isLoading, settingVars,
                 showResult, asyncVars, sessions, histVars>>

NextQueue ==
  \/ \E t2 \in 0..MaxNow : selectQueueCall(t2)
  \/ Tick

SpecQueue == InitQueue /\ [][NextQueue]_vars

\* entries a store can hold when LearnMode is entered at time MaxNow: none,
\* a valid one, one of another topic, one of exactly the expiry age, an
\* unparseable text, and entries without context or without timestamp
StoredCtx(t) == [topic |-> t, by |-> "stored"]
StoredEntries ==
  {NoEntry, Corrupt,
   [context |-> StoredCtx(DEFAULT_TOPIC), topic |-> DEFAULT_TOPIC, timestamp |-> MaxNow],
   [context |-> StoredCtx("Travel"), topic |-> "Travel", timestamp |-> MaxNow],
   [context |-> StoredCtx(DEFAULT_TOPIC), topic |-> DEFAULT_TOPIC,
    timestamp |-> MaxNow - ExpiryTicks],
   [context |-> UndefCtx, topic |-> DEFAULT_TOPIC, timestamp |-> MaxNow],
   [context |-> StoredCtx(DEFAULT_TOPIC), topic |-> DEFAULT_TOPIC,
    timestamp |-> Undefined]}

\* the queue LearnMode selects when it is entered at time MaxNow
CacheQueue ==
  selectLearningQueue(CHOOSE c \in InitCorpora : TRUE, DEFAULT_TARGET, MaxNow, MaxNow)

\* the stores: any entry for the first item of the queue (first batch) and for
\* the fourth (background batch); the second valid, without context or absent,
\* the third valid or absent
ValidEntry ==
  [context |-> StoredCtx(DEFAULT_TOPIC), topic |-> DEFAULT_TOPIC, timestamp |-> MaxNow]
InitStores ==
  {[i \in Items |-> IF i = CacheQueue[1] THEN e1
                    ELSE IF i = CacheQueue[4] THEN e4
                    ELSE IF i = CacheQueue[2] THEN e2
                    ELSE IF i = CacheQueue[3] THEN e3
                    ELSE NoEntry] :
     e1 \in StoredEntries, e4 \in StoredEntries,
     e2 \in {NoEntry, ValidEntry,
             [context |-> UndefCtx, topic |-> DEFAULT_TOPIC, timestamp |-> MaxNow]},
     e3 \in {NoEntry, ValidEntry}}

InitCache ==
  /\ mode = "DASHBOARD"
  /\ exitedBy = "none"
  /\ corpus \in InitCorpora
  /\ now = MaxNow
  /\ localStorage \in InitStores
  /\ Unmounted
  /\ request = IdleRequest
  /\ ReviewIdle

\* one visit to LearnMode with a store left by earlier sessions
NextCache ==
  \/ SystemNext
  \/ LearnerNext

SpecCache == InitCache /\ [][NextCache]_vars

\* the queue LearnMode selects when it is entered at time 0
BatchQueue ==
  selectLearningQueue(CHOOSE c \in InitCorpora : TRUE, DEFAULT_TARGET, 0, 0)

\* stores whose entries for the second and third item of that queue were
\* written at time 0 without a context; the fourth has a valid entry or none
BatchStores ==
  {[i \in Items |-> IF i \in {BatchQueue[2], BatchQueue[3]}
                    THEN [context |-> UndefCtx, topic |-> DEFAULT_TOPIC, timestamp |-> 0]
                    ELSE IF i = BatchQueue[4] THEN e4
                    ELSE NoEntry] :
     e4 \in {NoEntry, [context |-> StoredCtx(DEFAULT_TOPIC), topic |-> DEFAULT_TOPIC,
                       timestamp |-> 0]}}

InitBatch ==
  /\ mode = "DASHBOARD"
  /\ exitedBy = "none"
  /\ corpus \in InitCorpora
  /\ now = 0
  /\ localStorage \in BatchStores
  /\ Unmounted
  /\ request = IdleRequest
  /\ ReviewIdle

\* one visit to LearnMode during which the stored entries can expire
NextBatch ==
  \/ SystemNext
  \/ LearnerNext
  \/ Tick

SpecBatch == InitBatch /\ [][NextBatch]_vars

\* ---------------------------------------------------------------------
\* ReviewMode (src/unnamed/part_000)
\* ---------------------------------------------------------------------

\* the ids of a corpus, in its order
ListOf(c) == [i \in 1..Len(c) |-> i]

\* a shuffle that draws every place from the pool independently
Shuffles_WithRepeats(s) ==
  [1..Len(s) -> {s[k] : k \in 1..Len(s)}]

\* the orders pool.sort(() => 0.5 - Math.random()) can leave the pool in
Shuffles(s) ==
  { p \in [1..Len(s) -> {s[k] : k \in 1..Len(s)}] :
      \A a, b \in 1..Len(s) : a # b => p[a] # p[b] }

\* the results selectSmartPhrases(count) can return at time t
selectSmartPhrases(c, count, t) ==
  LET IsDue(i) == c[i].nextReviewDate <= t
      IsOther(i) == c[i].nextReviewDate > t
      dueItems == SortByMastery(c, SelectSeq(ListOf(c), IsDue))
      otherItems == SortByMastery(c, SelectSeq(ListOf(c), IsOther))
      combined == dueItems \o otherItems
      pool == Slice(combined, 0, Max(count * 2, Len(combined)))
  IN { Slice(shuffled, 0, count) : shuffled \in Shuffles(pool) }

\* the count passed on as it is
countToPick_NoDefault(currentCount) == currentCount

\* currentCount > 0 ? currentCount : 5 (line 230; line 158 for the prefetch)
countToPick(currentCount) == IF currentCount > 0 THEN currentCount ELSE DEFAULT_COUNT

\* handleStart up to its await: r is the state the handler has set so far, cl
\* the render it was created in, "" and Undefined stand for omitted arguments
handleStart(r, cl, overrideTopic, overrideCount, items) ==
  LET currentCount == IF overrideCount # Undefined THEN overrideCount ELSE cl.sessionTarget
      currentTopic == IF overrideTopic # "" THEN overrideTopic ELSE cl.topic
  IN [r EXCEPT !.step = "loading", !.feedback = FALSE, !.selectedPhrases = items,
               !.starts = @ + 1,
               !.start = [topic |-> currentTopic, items |-> items,
                          cTopic |-> cl.topic, cTarget |-> cl.sessionTarget]]

StartCount(cl, overrideCount) ==
  countToPick(IF overrideCount # Undefined THEN overrideCount ELSE cl.sessionTarget)

\* the test of initSession on a parsed entry
ReviewCacheHit(entry, target, t) ==
  /\ t - entry.timestamp < ExpiryTicks
  /\ Len(entry.scenario.highlights) = target

\* what no action of ReviewMode touches
learnVars == <<localStorage, exitedBy, sessVars, isPrefetchingRef, isLoading,
               settingVars, showResult, asyncVars, sessions, histVars, request>>

\* the mount effect: initSession up to its first await
EnterReview ==
  /\ mode = "DASHBOARD"
  /\ mode' = "REVIEW"
  /\ LET r == [ReviewUnmounted EXCEPT !.step = "loading", !.starts = review.starts]
     IN IF Len(corpus) = 0
        THEN /\ review' = [r EXCEPT !.step = "error"]
             /\ UNCHANGED reviewStore
        ELSE IF reviewStore # NoSession /\ reviewStore # CorruptSession
                /\ ReviewCacheHit(reviewStore, r.sessionTarget, now)
        THEN /\ review' = [r EXCEPT
                  !.topic = IF reviewStore.topic # "" THEN reviewStore.topic
                            ELSE REVIEW_TOPIC,
                  !.selectedPhrases = reviewStore.scenario.highlights,
                  !.cacheWait = reviewStore.scenario]
             /\ UNCHANGED reviewStore
        ELSE /\ review.starts < MaxStarts
             /\ \E items \in selectSmartPhrases(corpus, StartCount(r, Undefined), now) :
                  review' = handleStart(r, r, "", Undefined, items)
             /\ reviewStore' = IF reviewStore = CorruptSession THEN NoSession
                               ELSE reviewStore
  /\ UNCHANGED <<corpus, now, learnVars>>

\* initSession after its 600 ms wait
CacheWaitDone ==
  /\ mode = "REVIEW"
  /\ review.cacheWait # NoScenario
  /\ review' = [review EXCEPT !.scenario = review.cacheWait, !.step = "active",
                              !.cacheWait = NoScenario]
  /\ UNCHANGED <<mode, corpus, now, reviewStore, learnVars>>

\* handleStart whose catch leaves the step as it is
StartDone_FailureKeepsStep(ok) ==
  /\ mode = "REVIEW"
  /\ review.start # NoCall
  /\ LET call == review.start
         result == [topic |-> call.topic, highlights |-> call.items]
     IN IF ok
        THEN /\ review' = [review EXCEPT
                  !.scenario = result, !.step = "active",
                  !.nextScenarioCache = NoNext, !.start = NoCall,
                  !.timers = @ \cup {[topic |-> call.cTopic, target |-> call.cTarget]}]
             /\ reviewStore' = [scenario |-> result, topic |-> call.topic,
                                timestamp |-> now]
        ELSE /\ review' = [review EXCEPT !.start = NoCall]
             /\ UNCHANGED reviewStore
  /\ UNCHANGED <<mode, corpus, now, learnVars>>

\* handleStart after generateContextScenario settled
StartDone(ok) ==
  /\ mode = "REVIEW"
  /\ review.start # NoCall
  /\ LET call == review.start
         result == [topic |-> call.topic, highlights |-> call.items]
     IN IF ok
        THEN /\ review' = [review EXCEPT
                  !.scenario = result, !.step = "active",
                  !.nextScenarioCache = NoNext, !.start = NoCall,
                  !.timers = @ \cup {[topic |-> call.cTopic, target |-> call.cTarget]}]
             /\ reviewStore' = [scenario |-> result, topic |-> call.topic,
                                timestamp |-> now]
        ELSE /\ review' = [review EXCEPT !.step = "error", !.start = NoCall]
             /\ UNCHANGED reviewStore
  /\ UNCHANGED <<mode, corpus, now, learnVars>>

\* a setTimeout(() => prefetchNextScenario(), ..) callback runs
PrefetchTimerFires(cl) ==
  /\ mode = "REVIEW"
  /\ cl \in review.timers
  /\ IF review.isPrefetchingRef \/ Len(corpus) = 0
     THEN review' = [review EXCEPT !.timers = @ \ {cl}]
     ELSE \E nextPhrases \in selectSmartPhrases(corpus, countToPick(cl.target), now) :
            review' = [review EXCEPT
              !.timers = @ \ {cl}, !.isPrefetchingRef = TRUE,
              !.prefetch = [topic |-> cl.topic, items |-> nextPhrases,
                            cTopic |-> cl.topic, cTarget |-> cl.target]]
  /\ UNCHANGED <<mode, corpus, now, reviewStore, learnVars>>

\* prefetchNextScenario without its finally block
PrefetchDone_NoFinally(ok) ==
  /\ mode = "REVIEW"
  /\ review.prefetch # NoCall
  /\ LET call == review.prefetch
         nextResult == [topic |-> call.topic, highlights |-> call.items]
     IN review' = [review EXCEPT
          !.nextScenarioCache = IF ok THEN [scenario |-> nextResult,
                                            phrases |-> call.items,
                                            topic |-> call.topic]
                                ELSE @,
          !.isPrefetchingRef = IF ok THEN FALSE ELSE @, !.prefetch = NoCall]
  /\ UNCHANGED <<mode, corpus, now, reviewStore, learnVars>>

\* prefetchNextScenario after generateContextScenario settled
PrefetchDone(ok) ==
  /\ mode = "REVIEW"
  /\ review.prefetch # NoCall
  /\ LET call == review.prefetch
         nextResult == [topic |-> call.topic, highlights |-> call.items]
     IN review' = [review EXCEPT
          !.nextScenarioCache = IF ok THEN [scenario |-> nextResult,
                                            phrases |-> call.items,
                                            topic |-> call.topic]
                                ELSE @,
          !.isPrefetchingRef = FALSE, !.prefetch = NoCall]
  /\ UNCHANGED <<mode, corpus, now, reviewStore, learnVars>>

\* the analysis of a recording delivers its feedback
Analyzed ==
  /\ mode = "REVIEW"
  /\ review.step = "active"
  /\ ~review.feedback
  /\ review' = [review EXCEPT !.feedback = TRUE]
  /\ UNCHANGED <<mode, corpus, now, reviewStore, learnVars>>

handleNextLevel ==
  /\ mode = "REVIEW"
  /\ review.step = "active"
  /\ review.feedback
  /\ LET next == review.nextScenarioCache
         r == [review EXCEPT !.feedback = FALSE]
     IN IF next # NoNext /\ next.topic = review.topic
        THEN /\ review' = [r EXCEPT
                  !.scenario = next.scenario, !.selectedPhrases = next.phrases,
                  !.step = "active", !.nextScenarioCache = NoNext,
                  !.timers = @ \cup {[topic |-> review.topic,
                                      target |-> review.sessionTarget]}]
             /\ reviewStore' = [scenario |-> next.scenario, topic |-> next.topic,
                                timestamp |-> now]
        ELSE /\ review.starts < MaxStarts
             /\ \E items \in selectSmartPhrases(corpus, StartCount(review, Undefined), now) :
                  review' = handleStart(r, review, "", Undefined, items)
             /\ reviewStore' = NoSession
  /\ UNCHANGED <<mode, corpus, now, learnVars>>

\* the "another scenario" button of the footer
ChangeScenario ==
  /\ mode = "REVIEW"
  /\ review.step = "active"
  /\ ~review.feedback
  /\ review.starts < MaxStarts
  /\ \E items \in selectSmartPhrases(corpus, StartCount(review, Undefined), now) :
       review' = handleStart(review, review, "", Undefined, items)
  /\ reviewStore' = NoSession
  /\ UNCHANGED <<mode, corpus, now, learnVars>>

\* the retry button of the error screen
RetryStart ==
  /\ mode = "REVIEW"
  /\ review.step = "error"
  /\ review.starts < MaxStarts
  /\ \E items \in selectSmartPhrases(corpus, StartCount(review, Undefined), now) :
       review' = handleStart(review, review, "", Undefined, items)
  /\ UNCHANGED <<mode, corpus, now, reviewStore, learnVars>>

\* saveSettings of ReviewMode
reviewSaveSettings(tempTopic, tempTarget) ==
  /\ mode = "REVIEW"
  /\ review.step = "active"
  /\ LET r == [review EXCEPT !.sessionTarget = tempTarget, !.topic = tempTopic]
     IN IF review.topic # tempTopic \/ review.sessionTarget # tempTarget
        THEN /\ review.starts < MaxStarts
             /\ \E items \in selectSmartPhrases(corpus, StartCount(review, tempTarget), now) :
                  review' = handleStart(r, review, tempTopic, tempTarget, items)
             /\ reviewStore' = NoSession
        ELSE /\ review' = r
             /\ UNCHANGED reviewStore
  /\ UNCHANGED <<mode, corpus, now, learnVars>>

\* the exit buttons of the session and of the error screen
reviewExit ==
  /\ mode = "REVIEW"
  /\ review.step \in {"active", "error"}
  /\ mode' = "DASHBOARD"
  /\ review' = [ReviewUnmounted EXCEPT !.starts = review.starts]
  /\ UNCHANGED <<corpus, now, reviewStore, learnVars>>

\* sessions an earlier visit can have left under CACHE_KEY
StoredSessions ==
  {NoSession, CorruptSession} \cup
  { [scenario |-> [topic |-> t, highlights |-> h], topic |-> t, timestamp |-> ts] :
      t \in {REVIEW_TOPIC, "Travel"},
      h \in {<<1, 2, 3>>, <<1, 2, 3, 1, 2>>},
      ts \in {0, 0 - ExpiryTicks} }

InitReview ==
  /\ mode = "DASHBOARD"
  /\ exitedBy = "none"
  /\ corpus \in InitCorpora
  /\ now = 0
  /\ localStorage = EmptyStorage
  /\ Unmounted
  /\ request = IdleRequest
  /\ review = ReviewUnmounted
  /\ reviewStore \in StoredSessions

StartSettles == \E ok \in BOOLEAN : StartDone(ok)
ReviewSettings ==
  \E tempTopic \in TOPIC_OPTIONS, tempTarget \in ReviewTargetChoices :
    reviewSaveSettings(tempTopic, tempTarget)

\* the starts of sessions: mounting, settings, retries and fresh scenarios
NextReview ==
  \/ EnterReview
  \/ CacheWaitDone
  \/ StartSettles
  \/ ChangeScenario
  \/ RetryStart
  \/ ReviewSettings
  \/ reviewExit
  \/ Tick

SpecReview == InitReview /\ [][NextReview]_vars

\* corpora of every size up to NItems, the first d items due from time 0 on,
\* the others from time MaxNow on
SelectCorpora ==
  { [i \in 1..n |-> [masteryLevel |-> (2 * i) % (MAX_MASTERY + 1),
                     nextReviewDate |-> IF i <= d THEN 0 ELSE MaxNow,
                     practiceCount |-> 0]] : n \in 0..NItems, d \in 0..NItems }

\* a session of the default topic and target stored at time 0
FreshSession ==
  [scenario |-> [topic |-> REVIEW_TOPIC, highlights |-> <<1, 2, 3, 1, 2>>],
   topic |-> REVIEW_TOPIC, timestamp |-> 0]

\* session starts of ReviewMode on any of these corpora, with that session
\* stored or nothing stored
InitSelect ==
  /\ mode = "DASHBOARD"
  /\ exitedBy = "none"
  /\ corpus \in SelectCorpora
  /\ now = 0
  /\ localStorage = EmptyStorage
  /\ Unmounted
  /\ request = IdleRequest
  /\ review = ReviewUnmounted
  /\ reviewStore \in {NoSession, FreshSession}

SpecSelect == InitSelect /\ [][NextReview]_vars


\* ReviewMode with its background prefetch of the next scenario
ReviewPrefetchSettles == \E ok \in BOOLEAN : PrefetchDone(ok)
ReviewTimerFires == \E cl \in review.timers : PrefetchTimerFires(cl)

\* one visit to LearnMode or to ReviewMode, followed until its requests
\* have settled; the two components share neither state nor refs
NextGuard ==
  \/ SystemNext
  \/ EnterLearn
  \/ submitText
  \/ \E mastered \in BOOLEAN : handleResult(mastered)
  \/ EnterReview
  \/ StartSettles
  \/ ReviewTimerFires
  \/ ReviewPrefetchSettles
  \/ Analyzed
  \/ handleNextLevel

SpecGuard == InitBatch /\ [][NextGuard]_vars

\* counts handed to handleStart and prefetchNextScenario, among them counts
\* that the range input of the settings (3..12) does not produce
CountInputs == {0 - 2, 0, 3}

CountSettings ==
  \E tempTarget \in CountInputs : reviewSaveSettings(review.topic, tempTarget)

\* a visit that adopts the stored session and then changes the count
InitCount ==
  /\ InitSelect
  /\ Len(corpus) = NItems
  /\ \A i \in 1..Len(corpus) : corpus[i].nextReviewDate > now
  /\ reviewStore = FreshSession

NextCount ==
  \/ EnterReview
  \/ CacheWaitDone
  \/ CountSettings
  \/ StartSettles
  \/ RetryStart
  \/ ReviewTimerFires
  \/ ReviewPrefetchSettles

SpecCount == InitCount /\ [][NextCount]_vars

\* a visit that adopts the stored session, changes the session target and
\* goes on to the next level
TargetSettings ==
  \E tempTarget \in ReviewTargetChoices : reviewSaveSettings(review.topic, tempTarget)

NextAdopt ==
  \/ EnterReview
  \/ CacheWaitDone
  \/ TargetSettings
  \/ StartSettles
  \/ ReviewTimerFires
  \/ ReviewPrefetchSettles
  \/ Analyzed
  \/ handleNextLevel

SpecAdopt == InitCount /\ [][NextAdopt]_vars

\* ---------------------------------------------------------------------
\* zhipuService (src/App.tsx:396-849)
\* ---------------------------------------------------------------------

\* What a call of chatCompletion can throw: an error is kept as the type of
\* the ZhipuError (or "TypeError" for a fetch that rejects, i.e. no
\* connection), the HTTP status, and whether the response text that the
\* message of an API error quotes is plain or has the word "timeout" in it.
NoKeyError == [type |-> "AUTH", status |-> 0, body |-> "none"]
AuthErrors ==
  {NoKeyError} \cup {[type |-> "AUTH", status |-> st, body |-> "none"] : st \in {401, 403}}
ApiErrors ==
  {[type |-> "API", status |-> st, body |-> b] :
     st \in {400, 500, 502, 503}, b \in {"plain", "timeout"}}
TimeoutError == [type |-> "NETWORK", status |-> 0, body |-> "none"]
FetchError == [type |-> "TypeError", status |-> 0, body |-> "none"]
ParseError == [type |-> "PARSE", status |-> 0, body |-> "none"]
Errors == AuthErrors \cup ApiErrors \cup {TimeoutError, FetchError, ParseError}

\* errorMsg.includes(marker) for the four markers of callWithRetry, on the
\* messages chatCompletion, withTimeout and fetch build
Includes(error, marker) ==
  CASE marker = "timeout" -> error.type = "API" /\ error.body = "timeout"
    [] marker = "500" -> error.type = "API" /\ error.status = 500
    [] marker = "503" -> error.type = "API" /\ error.status = 503
    [] marker = "NETWORK" -> error.type = "NETWORK"

\* a test that lets every error but a parse error be tried again
isRetryable_AllButParse(error) ==
  error.type # "PARSE"

isRetryable(error) ==
  \/ Includes(error, "timeout")
  \/ Includes(error, "500")
  \/ Includes(error, "503")
  \/ Includes(error, "NETWORK")

\* callWithRetry waiting the same time before every attempt
callWithRetry_FixedDelay(r, retries, delay) ==
  [r EXCEPT !.status = "calling", !.retries = retries, !.delay = DEFAULT_DELAY,
            !.calls = @ + 1]

\* callWithRetry(fn, retries, delay) up to its await of fn()
callWithRetry(r, retries, delay) ==
  [r EXCEPT !.status = "calling", !.retries = retries, !.delay = delay,
            !.calls = @ + 1]

\* what the service layer leaves alone
appState == <<mode, corpus, now, review, reviewStore, localStorage, exitedBy,
              sessVars, isPrefetchingRef, isLoading, settingVars, showResult,
              asyncVars, sessions, histVars>>

\* a generate* function calls callWithRetry(() => chatCompletion(..))
CallGenerate ==
  /\ request.status = "idle"
  /\ request' = callWithRetry(request, DEFAULT_RETRIES, DEFAULT_DELAY)
  /\ UNCHANGED appState

\* chatCompletion returns the content
FnReturns ==
  /\ request.status = "calling"
  /\ request.apiKey
  /\ request' = [request EXCEPT !.status = "resolved"]
  /\ UNCHANGED appState

\* chatCompletion throws: the catch of callWithRetry
FnThrows(error) ==
  /\ request.status = "calling"
  /\ request.apiKey = (error # NoKeyError)
  /\ request' =
       IF request.retries <= 0 \/ ~isRetryable(error)
       THEN [request EXCEPT !.status = "rejected", !.error = error,
                            !.errors = Append(@, error)]
       ELSE [request EXCEPT !.status = "waiting", !.errors = Append(@, error)]
  /\ UNCHANGED appState

\* the setTimeout of the backoff fires: callWithRetry(fn, retries - 1, delay * 2)
BackoffElapsed ==
  /\ request.status = "waiting"
  /\ request' = callWithRetry(request, request.retries - 1, request.delay * 2)
  /\ UNCHANGED appState

InitRetry ==
  /\ mode = "DASHBOARD"
  /\ exitedBy = "none"
  /\ corpus \in InitCorpora
  /\ now = 0
  /\ localStorage = EmptyStorage
  /\ Unmounted
  /\ ReviewIdle
  /\ request \in {IdleRequest, [IdleRequest EXCEPT !.apiKey = FALSE]}

NextRetry ==
  \/ CallGenerate
  \/ FnReturns
  \/ \E error \in Errors : FnThrows(error)
  \/ BackoffElapsed

\* one generation request through callWithRetry
SpecRetry == InitRetry /\ [][NextRetry]_vars

(* ------------------------------ the claims ----------------------------- *)
\* a generation request is in flight
RequestInFlight == initTasks # <<>> \/ prefetchTasks # <<>> \/ regenTasks # {}

\* the session shows the initialisation screen
Initializing == mode = "LEARN" /\ isInitializing

\* the session is active on an item it has no content for
NoContent ==
  /\ mode = "LEARN" /\ ~isInitializing /\ ~isSessionComplete
  /\ currentItem # Null /\ context = NoCtx

\* C1: at most one background prefetch batch is in flight at any time, so no
\* batch is started while an earlier one has not settled.
C1_SingleFlight == Len(prefetchTasks) <= 1

\* C2: the result of a background batch or of a regeneration started under
\* another topic never enters the context cache: every entry of the cache that
\* such a request produced was generated for the session's current topic.
C2_CacheOfCurrentTopic ==
  \A i \in Items :
    contextCache[i].by \in {"prefetch", "regen"} => contextCache[i].topic = topic

\* C3: whenever the active session's current item has no content, a generation
\* request for that item is eventually issued.  On finite runs: the session is
\* never on an item without content in a state where no generation request is
\* in flight, because only the settling of a request or a submission (which
\* needs content) runs the effect that issues requests.
C3_CurrentItemRequested == NoContent => RequestInFlight

\* C4: the session never stays in the Initializing state forever when a
\* first-batch generation fails.  On finite runs: while the session is
\* Initializing, an initialisation none of whose requests has failed is
\* pending, because only the resolution of its Promise.all leaves the state.
C4_LeavesInitializing ==
  Initializing => \E k \in 1..Len(initTasks) : ~initTasks[k].rejected

\* C5: once a background batch in which an item's generation failed has
\* settled, the prefetch pipeline issues no further request for that item in
\* that session.
C5_NoAutomaticRetry == retried = {}

\* C6: every item's masteryLevel stays in 0..5 under any sequence of progress
\* updates.
C6_MasteryInRange ==
  \A i \in Items : corpus[i].masteryLevel \in 0..5

\* C6 witness: an item that started at level 5 was updated with success and an
\* item that started at level 0 with failure (the corpus with levels 4,5,0,1).
C6_Witness ==
  /\ corpus[1].practiceCount = Undefined /\ corpus[1].masteryLevel = 4
  /\ corpus[2].practiceCount = 1 /\ corpus[2].masteryLevel = 5
  /\ corpus[3].practiceCount = 1 /\ corpus[3].masteryLevel = 0

\* C7: a successful update of an item of level L sets the level to
\* L' = min(L+1, 5), the next review date to now + table[L'] * 86400000 ms with
\* table = [0,1,3,7,14,30], and adds one to the practice count.
C7_SuccessUpdate ==
  [][\A id \in Items :
       UpdateProgress(id, TRUE) =>
         LET L == corpus[id].masteryLevel
             L1 == IF L + 1 < 5 THEN L + 1 ELSE 5
             table == <<0, 1, 3, 7, 14, 30>>
             count == IF corpus[id].practiceCount = Undefined THEN 0
                      ELSE corpus[id].practiceCount
         IN /\ corpus'[id].masteryLevel = L1
            /\ corpus'[id].nextReviewDate = now + table[L1 + 1] * (86400000 \div TickMs)
            /\ corpus'[id].practiceCount = count + 1]_vars

\* C7 witness: item 3 went from level 3 to level 4 at tick 1, next review 14
\* days later.
C7_Witness ==
  /\ corpus[3].masteryLevel = 4
  /\ corpus[3].practiceCount = 1
  /\ corpus[3].nextReviewDate = 1 + 14 * (86400000 \div TickMs)

\* C8: a failure reported on the current item of a learn session sets that
\* item's masteryLevel to max(masteryLevel - 1, 0) and its nextReviewDate to now.
C8_FailureLowersMastery ==
  [][handleResult(FALSE) =>
       /\ corpus'[currentItem].masteryLevel =
            (IF corpus[currentItem].masteryLevel > 0
             THEN corpus[currentItem].masteryLevel - 1 ELSE 0)
       /\ corpus'[currentItem].nextReviewDate = now]_vars

\* C9: a successful submission moves the session to Complete exactly when
\* sessionTarget > 0 and the progress count after the submission is
\* >= sessionTarget; with sessionTarget = 0 it never does.
C9_CompleteByTarget ==
  [][handleResult(TRUE) =>
       (isSessionComplete' <=>
          (sessionTarget > 0 /\ sessionProgress + 1 >= sessionTarget))]_vars

\* C9 witness: with target 2 the second success completed the session.
C9_Witness ==
  mode = "LEARN" /\ isSessionComplete /\ sessionTarget = 2 /\ sessionProgress = 2

\* the successful submission on the last queue item, the target not reached
LastItemSuccess ==
  /\ handleResult(TRUE)
  /\ currentIndex + 1 >= Len(learningQueue)
  /\ ~(sessionTarget > 0 /\ sessionProgress + 1 >= sessionTarget)

\* C10 as claimed: a success on the last item of the queue, before the target
\* is reached, puts the session in the Complete state.
C10_QueueEndCompletes == [][LastItemSuccess => isSessionComplete']_vars

\* C10 as amended: a success on the last item of the queue, before the target
\* is reached, ends the session by onExit: LearnMode is left for the dashboard
\* and the Complete state is not entered.
C10_QueueEndExits ==
  [][LastItemSuccess =>
       (mode' = "DASHBOARD" /\ exitedBy' = "queue" /\ ~isSessionComplete')]_vars

\* C10 witness: LearnMode was left because the queue was finished.
C10_Witness == mode = "DASHBOARD" /\ exitedBy = "queue"

\* C11: Complete is terminal: while the session stays Complete no step
\* changes the progress count, the cursor or any item's mastery; the session
\* leaves Complete only by starting a new batch or by leaving LearnMode.
C11_CompleteIsTerminal ==
  [][(mode = "LEARN" /\ isSessionComplete) =>
       \/ isSessionComplete' /\ UNCHANGED <<sessionProgress, currentIndex, corpus>>
       \/ StudyAnotherSet
       \/ onExit]_vars

\* C11 witness: the session is Complete while a background batch is in flight,
\* so steps are taken in the Complete state.
C11_Witness ==
  mode = "LEARN" /\ isSessionComplete /\ prefetchTasks # <<>> /\ ~showResult

\* C12: the cursor stays within 0..queue length, and it decreases only in a
\* step that restarts the session by initSession (or discards the component).
C12_CursorMonotonic ==
  /\ [](currentIndex >= 0 /\ currentIndex <= Len(learningQueue))
  /\ [][currentIndex' < currentIndex =>
          (sessions' = sessions + 1 \/ mode' = "DASHBOARD")]_vars

\* C12 witness: a restarted session whose cursor has advanced again.
C12_Witness == mode = "LEARN" /\ sessions = 2 /\ currentIndex >= 1

\* C13: the learning queue is fixed at session start: only a step that runs
\* initSession (or discards the component) changes it.
C13_QueueFixed ==
  [][learningQueue' # learningQueue =>
       (sessions' = sessions + 1 \/ mode' = "DASHBOARD")]_vars

\* C13 witness: after a mastery update the queue is no longer what a selection
\* from the updated corpus would give, and a background batch has settled.
C13_Witness ==
  /\ mode = "LEARN" /\ sessionProgress >= 1
  /\ learningQueue # selectLearningQueue(corpus, sessionTarget, now, now)
  /\ \E i \in Items : contextCache[i].by = "prefetch"

\* C14: once an item was mastered in the session (it lies before the cursor,
\* or at the cursor of a Complete session), the persisted cache holds no entry
\* for it for the rest of the session.
C14_MasteredNotPersisted ==
  mode = "LEARN" =>
    \A k \in 1..Len(learningQueue) :
      (k <= currentIndex \/ (k = currentIndex + 1 /\ isSessionComplete))
        => localStorage[learningQueue[k]] = NoEntry

\* C15: a failure submission leaves the cursor, the progress count and the
\* Complete flag unchanged.
C15_FailureKeepsCursor ==
  [][handleResult(FALSE) =>
       UNCHANGED <<currentIndex, sessionProgress, isSessionComplete>>]_vars

\* C15 witness: a failure was submitted on the second item of the queue.
C15_Witness ==
  /\ mode = "LEARN" /\ currentIndex = 1 /\ sessionProgress = 1
  /\ \E task \in regenTasks : task.item = currentItem

\* C16: a failure submission issues a new generation request for the current
\* item also when a valid persisted entry for the item and topic exists, and
\* when a regeneration succeeds the item's content is the newly generated one.
C16_FailureRegenerates ==
  /\ [][handleResult(FALSE) =>
          /\ [item |-> currentItem, topic |-> topic] \notin regenTasks
          /\ [item |-> currentItem, topic |-> topic] \in regenTasks']_vars
  /\ [][\A task \in regenTasks :
          RegenDone(task, TRUE) =>
            contextCache'[task.item] = [topic |-> task.topic, by |-> "regen"]]_vars

\* C16 witness: the current item shows regenerated content while its valid
\* persisted entry still holds the content of the first batch.
C16_Witness ==
  /\ mode = "LEARN" /\ currentItem # Null
  /\ context.by = "regen"
  /\ CacheHit(localStorage[currentItem], topic)
  /\ localStorage[currentItem].context.by = "init"

\* a parsed entry with its content, topic and timestamp fields
WellFormed(e) ==
  e \notin {NoEntry, Corrupt} /\ e.context # UndefCtx /\ e.timestamp # Undefined

\* item i is generated by the initialisation in flight
InitRequested(i) == \E k \in 1..Len(initTasks) : i \in initTasks[k].pending

\* the items initSession looks up: the first batch of the queue
FirstBatch(q) == {q[k] : k \in 1..Min(INITIAL_BATCH_SIZE, Len(q))}

\* C17: the lookup of a persisted entry is a hit if and only if the stored
\* topic equals the requested topic and now - timestamp < 3600000 ms; stated of
\* the validity test on every stored entry and topic, and of initSession, which
\* requests a first-batch item exactly when its entry is not a hit.
C17_HitIffTopicAndFresh ==
  /\ [](\A i \in Items, t \in TOPIC_OPTIONS :
          WellFormed(localStorage[i]) =>
            (CacheHit(localStorage[i], t) <=>
               /\ localStorage[i].topic = t
               /\ (now - localStorage[i].timestamp) * TickMs < 3600000))
  /\ [][EnterLearn =>
          \A i \in FirstBatch(learningQueue') :
            WellFormed(localStorage[i]) =>
              (~InitRequested(i)' <=>
                 /\ localStorage[i].topic = topic
                 /\ (now - localStorage[i].timestamp) * TickMs < 3600000)]_vars

\* C17 witness: LearnMode was entered with an entry of exactly the expiry age
\* for the first item, which is requested, and a valid entry for the second,
\* which is not.
C17_Witness ==
  /\ mode = "LEARN" /\ Len(learningQueue) >= 2
  /\ InitRequested(learningQueue[1]) /\ ~InitRequested(learningQueue[2])
  /\ localStorage[learningQueue[1]].topic = topic
  /\ now - localStorage[learningQueue[1]].timestamp = ExpiryTicks
  /\ CacheHit(localStorage[learningQueue[2]], topic)

\* C18: when the lookup of an item finds an entry of another topic or an
\* expired one and the generation that follows fails, the store no longer
\* holds a stale entry for the item.
C18_StaleEvicted ==
  [][\A k \in 1..Len(initTasks), i \in Items :
       InitGenDone(k, i, FALSE) =>
         ~(WellFormed(localStorage'[i])
           /\ ~CacheHit(localStorage'[i], initTasks[k].topic))]_vars

\* C19: a malformed persisted entry (unparseable, or parsed without content,
\* topic or timestamp) is treated as absent: the lookup of initSession reports
\* a miss for it, so the item's content is generated.
C19_MalformedIsMiss ==
  [][EnterLearn =>
       \A i \in FirstBatch(learningQueue') :
         (localStorage[i] # NoEntry /\ ~WellFormed(localStorage[i]))
           => InitRequested(i)']_vars

\* initSession took the stored session and issued no generation request
UsedCachedSession == review.cacheWait # NoScenario /\ review.start = NoCall

\* C20: ReviewMode initialization uses the cached session and skips generation
\* only if the cached entry is unexpired, its topic equals the session's
\* requested topic and its number of target phrases equals sessionTarget; in
\* every other case a new scenario generation is started.
C20_CacheNeedsTopicMatch ==
  [][EnterReview =>
       LET e == reviewStore
           matches == /\ e # NoSession
                      /\ e # CorruptSession
                      /\ now - e.timestamp < ExpiryTicks
                      /\ e.topic = review.topic
                      /\ Len(e.scenario.highlights) = review.sessionTarget
       IN /\ UsedCachedSession' => matches
          /\ ~matches => review'.start # NoCall]_vars

\* the request batch k awaits settles and the batch has no request left to make
BatchSettles(k, ok) ==
  /\ k \in 1..Len(prefetchTasks)
  /\ PrefetchGenDone(k, ok)
  /\ LET task == prefetchTasks[k]
         item == task.items[task.pos]
         ctx == NewCtx(task.topic, "prefetch")
         ls1 == IF ok THEN [localStorage EXCEPT ![item] = NewEntry(ctx, task.topic)]
                ELSE localStorage
         results1 == BatchResults(task.results, item, ctx, ok)
     IN RunBatch(task.items, task.pos + 1, results1, task.topic, ls1).pos > Len(task.items)

\* a step in which prefetchMoreIfNeeded starts a batch that has to wait
BatchLaunched ==
  \/ Len(prefetchTasks') > Len(prefetchTasks)
  \/ /\ Len(prefetchTasks') = Len(prefetchTasks)
     /\ \E k \in 1..Len(prefetchTasks), ok \in BOOLEAN : BatchSettles(k, ok)

\* the queue items after the cursor that the cache has no key for
MissingAfterCursor(q, idx, cache) ==
  LET NotCached(i) == cache[i] = NoCtx
  IN SelectSeq(Slice(q, idx + 1, Len(q)), NotCached)

\* C27: each prefetch batch consists of the first batchSize (3) queue items
\* after the cursor that are missing from the cache; an uncached item nearer
\* to the cursor is never skipped in favour of later items.
C27_BatchIsFirstMissing ==
  [][BatchLaunched =>
       prefetchTasks'[Len(prefetchTasks')].items =
         Slice(MissingAfterCursor(learningQueue', currentIndex', contextCache'),
               0, BACKGROUND_BATCH_SIZE)]_vars

\* a step in which handleStart runs (and with it selectSmartPhrases)
StartsScenario == review'.starts = review.starts + 1

\* the items of corpus c that are due at time t
DueItems(c, t) == {i \in 1..Len(c) : c[i].nextReviewDate <= t}
Elements(seq) == {seq[k] : k \in 1..Len(seq)}

\* C21: whenever the number of due items (nextReviewDate <= now) is at most
\* count, every due item is included in the selection, for every outcome of
\* the random shuffle.
C21_DueItemsSelected ==
  [][StartsScenario =>
       (Cardinality(DueItems(corpus, now)) <= countToPick(review'.sessionTarget)
          => DueItems(corpus, now) \subseteq Elements(review'.selectedPhrases))]_vars

\* C22: for every non-empty corpus and every count >= 1, the phrase selection
\* returns exactly min(count, corpus size) items, all of them distinct corpus
\* items.
C22_SelectionSize ==
  /\ [](Len(corpus) > 0 /\ review.step = "unmounted" =>
         \A count \in 1..(NItems + 1) :
           \A sel \in selectSmartPhrases(corpus, count, now) :
             /\ Len(sel) = Min(count, Len(corpus))
             /\ Cardinality(Elements(sel)) = Len(sel)
             /\ Elements(sel) \subseteq 1..Len(corpus))
  /\ [][StartsScenario /\ Len(corpus) > 0 =>
         LET sel == review'.selectedPhrases
         IN /\ Len(sel) = Min(countToPick(review'.sessionTarget), Len(corpus))
            /\ Cardinality(Elements(sel)) = Len(sel)
            /\ Elements(sel) \subseteq 1..Len(corpus)]_vars

\* a scenario was started with fewer phrases than the corpus has
C22_Witness ==
  /\ review.start # NoCall
  /\ Len(review.selectedPhrases) = review.sessionTarget
  /\ Len(review.selectedPhrases) < Len(corpus)

\* a session start is attempted: the mount effect or the retry button
StartAttempted == EnterReview \/ RetryStart

\* C24: whenever a session start is attempted on an empty corpus (the initial
\* start or a retry from the error screen), it fails with EmptyCorpus: the
\* session is in the error state and no generation request is issued.
C24_EmptyCorpusFails ==
  [][StartAttempted /\ Len(corpus) = 0 =>
       review'.step = "error" /\ review'.start = NoCall]_vars

\* q lists the items of c due at t before the others, each group by rising level
DueFirstByMastery(q, c, t) ==
  \A a, b \in 1..Len(q) :
    a < b =>
      /\ ~(c[q[a]].nextReviewDate > t /\ c[q[b]].nextReviewDate <= t)
      /\ ((c[q[a]].nextReviewDate <= t) = (c[q[b]].nextReviewDate <= t)
            => c[q[a]].masteryLevel <= c[q[b]].masteryLevel)

\* C23: the learning queue built at session start lists every item with
\* nextReviewDate <= now before every item with nextReviewDate > now, and
\* within each of the two groups the items are in ascending masteryLevel order.
C23_QueueOrdered ==
  [][sessions' = sessions + 1 => DueFirstByMastery(learningQueue', corpus, now)]_vars

\* C23 witness: a session starts with a queue of two due items of different
\* levels followed by items that are not due
C23_Witness ==
  /\ mode = "LEARN" /\ sessions >= 1 /\ currentIndex = 0 /\ sessionProgress = 0
  /\ Len(learningQueue) >= 3
  /\ corpus[learningQueue[1]].nextReviewDate <= now
  /\ corpus[learningQueue[2]].nextReviewDate <= now
  /\ corpus[learningQueue[1]].masteryLevel < corpus[learningQueue[2]].masteryLevel
  /\ corpus[learningQueue[Len(learningQueue)]].nextReviewDate > now
  /\ DueFirstByMastery(learningQueue, corpus, now)

IsAuth(error) == error.type = "AUTH"

\* C25: a generation request that fails with an authentication error (missing
\* API key, HTTP 401 or 403) is never retried: no call follows the one that
\* met the error, the request that meets it at once makes exactly one call,
\* and the error is the one the caller gets.
C25_AuthNotRetried ==
  /\ [](\A k \in 1..Len(request.errors) :
          IsAuth(request.errors[k]) =>
            /\ k = Len(request.errors)
            /\ request.status = "rejected"
            /\ request.error = request.errors[k]
            /\ request.calls = k)
  /\ [][\A error \in AuthErrors :
          FnThrows(error) => request'.status = "rejected" /\ request'.calls = request.calls]_vars

\* C25 witness: a request rejected with HTTP 401 after its only call
C25_Witness ==
  /\ request.status = "rejected"
  /\ request.calls = 1
  /\ request.error = [type |-> "AUTH", status |-> 401, body |-> "none"]

\* network failures, timeouts and 5xx answers
IsTransient(error) ==
  \/ error \in {TimeoutError, FetchError}
  \/ error.type = "API" /\ error.status >= 500

\* C26: a generation request that fails with a transient error (network
\* failure, timeout, or any 5xx HTTP status) is retried with backoff before
\* the error is surfaced to the caller.
C26_TransientRetried ==
  [][\A error \in Errors :
       FnThrows(error) /\ IsTransient(error) /\ request.retries > 0
         => request'.status = "waiting"]_vars

\* C28: within a background prefetch batch, a failure to generate one item
\* does not block the others: when the batch settles, every item of the batch
\* whose generation did not fail is in the cache.
C28_FailureDoesNotBlock ==
  [][\A k \in 1..Len(prefetchTasks), ok \in BOOLEAN :
       BatchSettles(k, ok) =>
         LET task == prefetchTasks[k]
             failed == task.failed \cup (IF ok THEN {} ELSE {task.items[task.pos]})
         IN \A i \in Elements(task.items) \ failed : contextCache'[i] # NoCtx]_vars

\* C28 witness: the second item of the queue failed in a settled batch and is
\* still missing, while a later item of that batch was generated and cached
C28_Witness ==
  /\ mode = "LEARN" /\ currentIndex = 0 /\ Len(learningQueue) = NItems
  /\ learningQueue[2] \in failedSettled
  /\ contextCache[learningQueue[2]] = NoCtx
  /\ contextCache[learningQueue[3]].by = "prefetch"

\* C29: the prefetch in-flight guard is cleared when the batch settles,
\* whether its generations succeeded or failed: a settling LearnMode batch
\* leaves the guard false unless the effect at once starts the next batch, a
\* settling ReviewMode prefetch leaves it false, and neither guard is ever
\* set with no request left to clear it.
C29_GuardCleared ==
  /\ [](mode = "LEARN" /\ isPrefetchingRef => prefetchTasks # <<>>)
  /\ [](review.isPrefetchingRef => review.prefetch # NoCall)
  /\ [][(\E k \in 1..Len(prefetchTasks), ok \in BOOLEAN : BatchSettles(k, ok))
         => (isPrefetchingRef' => Len(prefetchTasks') >= Len(prefetchTasks))]_vars
  /\ [][ReviewPrefetchSettles => ~review'.isPrefetchingRef]_vars

\* C29 witness (LearnMode): a batch with a failed generation has settled and
\* the guard is false with nothing in flight
C29_Witness ==
  /\ mode = "LEARN" /\ failedSettled # {}
  /\ prefetchTasks = <<>> /\ ~isPrefetchingRef

\* C29 witness (ReviewMode): the prefetch failed, no next scenario is cached,
\* and the guard is false again
C29_WitnessReview ==
  /\ mode = "REVIEW" /\ review.step = "active" /\ review.timers = {}
  /\ review.prefetch = NoCall /\ review.nextScenarioCache = NoNext
  /\ ~review.isPrefetchingRef

\* what the main area of LearnMode renders (lines 688-851): the progress of
\* the initialisation, the placeholder of a running regeneration, the item
\* with its context, or nothing; the component keeps no error state
MainArea ==
  IF mode # "LEARN" THEN "none"
  ELSE IF isSessionComplete THEN "complete"
  ELSE IF isInitializing THEN "initializing"
  ELSE IF isLoading THEN "loading"
  ELSE IF ShowsItem THEN "item"
  ELSE "empty"

\* C30: when the regeneration of the current item fails, an error is shown
\* for that item, and the progress counter, the cursor and the mastery of the
\* items stay as they were.
C30_RegenFailureSurfaced ==
  [][\A task \in regenTasks :
       RegenDone(task, FALSE) =>
         /\ MainArea' = "error"
         /\ sessionProgress' = sessionProgress
         /\ currentIndex' = currentIndex
         /\ corpus' = corpus]_vars

\* the generateContextScenario call of handleStart settles in this step
StartCallSettles ==
  /\ mode = "REVIEW" /\ mode' = "REVIEW"
  /\ review.start # NoCall /\ review'.start = NoCall

\* C31: every scenario start whose generation call settles ends either in the
\* active state, with the scenario set and persisted with its topic and the
\* current time, or in the error state (which offers the retry) with the
\* persisted cache untouched; the loading state is never shown with nothing
\* left to end it.
C31_StartSettlesCleanly ==
  /\ [][StartCallSettles =>
          LET call == review.start
              result == [topic |-> call.topic, highlights |-> call.items]
          IN \/ /\ review'.step = "active"
                /\ review'.scenario = result
                /\ reviewStore' = [scenario |-> result, topic |-> call.topic,
                                   timestamp |-> now]
             \/ /\ review'.step = "error"
                /\ reviewStore' = reviewStore]_vars
  /\ [](mode = "REVIEW" /\ review.step = "loading"
         => review.start # NoCall \/ review.cacheWait # NoScenario)

\* C31 witness: a start on a corpus with items has failed: the error screen is
\* shown, nothing is in flight and nothing was persisted
C31_Witness ==
  /\ mode = "REVIEW" /\ review.step = "error" /\ Len(corpus) > 0
  /\ review.starts >= 1 /\ review.start = NoCall
  /\ reviewStore = NoSession

\* the lookup of generateContextsForItems and initSession (lines 112-121,
\* 173-180): the context of a valid entry, or no result
getStoredContext(ls, i, t) == IF CacheHit(ls[i], t) THEN ls[i].context ELSE NoCtx

\* a generation for item i under topic t succeeds in this step
GenerationStored(i, t, who) ==
  \/ /\ who = "init"
     /\ \E k \in 1..Len(initTasks) :
          initTasks[k].topic = t /\ InitGenDone(k, i, TRUE)
  \/ /\ who = "prefetch"
     /\ \E k \in 1..Len(prefetchTasks) :
          /\ prefetchTasks[k].topic = t
          /\ prefetchTasks[k].items[prefetchTasks[k].pos] = i
          /\ PrefetchGenDone(k, TRUE)

\* C32: storing generated content for an item and topic and looking the same
\* item and topic up at the same time returns exactly the stored content,
\* and the store replaces whatever entry the item had.
C32_RoundTrip ==
  [][\A i \in Items, t \in TOPIC_OPTIONS, who \in {"init", "prefetch"} :
       GenerationStored(i, t, who) =>
         /\ getStoredContext(localStorage', i, t) = NewCtx(t, who)
         /\ localStorage'[i] = [context |-> NewCtx(t, who), topic |-> t,
                                timestamp |-> now]]_vars

\* C32 witness: the entry the store held for the second item of the queue
\* has been replaced by a generated one
C32_Witness ==
  /\ mode = "LEARN"
  /\ localStorage[BatchQueue[2]].context = NewCtx(DEFAULT_TOPIC, "prefetch")

\* prefetchNextScenario passes its guard and selects phrases in this step
PrefetchStarts == review.prefetch = NoCall /\ review'.prefetch # NoCall

C34_AnotherSetOfInitialTarget ==
  /\ [][StudyAnotherSet =>
          /\ ~isSessionComplete'
          /\ sessionTarget' = sessionTarget + initialTarget]_vars
  /\ [](mode = "LEARN" /\ initialTarget > 0 /\ sessionTarget > initialTarget
         /\ sessionProgress >= initialTarget
         => isSessionComplete)

\* C35: when initSession is invoked again (topic change) while an earlier
\* invocation still generates its first batch, the session stays Initializing
\* until the latest invocation (the one of the current topic) has finished,
\* and the cache then holds first-batch results of that invocation only,
\* whichever invocation settles first.
C35_LatestInitWins ==
  mode = "LEARN" =>
    /\ (\E k \in 1..Len(initTasks) : initTasks[k].topic = topic) => isInitializing
    /\ ~isInitializing =>
         \A i \in Items : contextCache[i].by = "init" => contextCache[i].topic = topic

\* C36: in every state of a LearnMode session with sessionTarget > 0 that is
\* not Complete, sessionProgress < sessionTarget, also after the target was
\* changed in the settings in the middle of the session.
C36_ProgressBelowTarget ==
  mode = "LEARN" /\ sessionTarget > 0 /\ ~isSessionComplete
    => sessionProgress < sessionTarget

\* handleNextLevel takes the prefetched scenario instead of starting one
AdoptsPrefetched == handleNextLevel /\ review'.starts = review.starts

\* C37: a prefetched next scenario is adopted by handleNextLevel only if it
\* was generated with the current topic and with as many phrases as the
\* current session target asks for (all of the corpus when it has fewer),
\* also when the settings changed while the prefetch was scheduled or in
\* flight.
C37_AdoptedMatchesSettings ==
  [][AdoptsPrefetched =>
       /\ review.nextScenarioCache.scenario.topic = review.topic
       /\ Len(review.nextScenarioCache.phrases)
            = Min(countToPick(review.sessionTarget), Len(corpus))]_vars

\* C38: the queue selection neither loses nor duplicates items: every corpus
\* item appears exactly once in the concatenation of the due group and the
\* not-due group, also when the clock advances between the two filter passes.
C38_QueueIsPermutation ==
  [][\A t2 \in 0..MaxNow :
       selectQueueCall(t2) =>
         /\ Len(learningQueue') = NItems
         /\ Elements(learningQueue') = Items]_vars

\* 2000 * 2^(k - 1): the wait after the k-th attempt
RECURSIVE BackoffDelay(_)
BackoffDelay(k) == IF k <= 1 THEN DEFAULT_DELAY ELSE 2 * BackoffDelay(k - 1)

\* C39: callWithRetry settles when the wrapped call settles: with the default
\* budget the wrapped call is invoked at most 4 times, the waits between the
\* attempts are 2000, 4000 and 8000 ms, a successful attempt is returned
\* without a further call, and the error rethrown is the last one, thrown
\* once it cannot be retried or the budget is used up.
C39_RetryBudget ==
  /\ [](request.calls <= 1 + DEFAULT_RETRIES)
  /\ [](request.status = "waiting" =>
          /\ request.calls <= DEFAULT_RETRIES
          /\ request.delay = BackoffDelay(request.calls))
  /\ [](request.status = "rejected" =>
          /\ request.error = request.errors[Len(request.errors)]
          /\ Len(request.errors) = request.calls
          /\ (request.calls = 1 + DEFAULT_RETRIES \/ ~isRetryable(request.error)))
  /\ [](request.status = "resolved" => Len(request.errors) = request.calls - 1)
  /\ [][request.status \in {"resolved", "rejected"} => request' = request]_vars
  /\ [][FnReturns => request'.status = "resolved" /\ request'.calls = request.calls]_vars

\* C39 witness: the fourth attempt failed with an error that could be tried
\* again, after three waits, and its error was rethrown
C39_Witness ==
  /\ request.status = "rejected"
  /\ request.calls = 1 + DEFAULT_RETRIES
  /\ request.delay = 2 * BackoffDelay(DEFAULT_RETRIES)
  /\ isRetryable(request.error)

\* C40: updateItemProgress(id, success) changes only the corpus item with
\* that id, and of that item only masteryLevel, nextReviewDate and
\* practiceCount; every other item, the order and the number of items stay,
\* and an id that is not in the corpus leaves the corpus unchanged.
C40_UpdateFrame ==
  [][\A id \in 1..(NItems + 1), success \in BOOLEAN :
       UpdateAnyItem(id, success) =>
         /\ DOMAIN corpus' = DOMAIN corpus
         /\ \A i \in DOMAIN corpus :
              /\ i # id => corpus'[i] = corpus[i]
              /\ DOMAIN corpus'[i] = DOMAIN corpus[i]
              /\ corpus'[i].english = corpus[i].english
         /\ id \notin DOMAIN corpus => corpus' = corpus]_vars

\* C40 witness: the second of NItems items was updated twice, the others
\* never, and every item still has its text
C40_Witness ==
  /\ Len(corpus) = NItems
  /\ corpus[2].practiceCount = 2
  /\ \A i \in DOMAIN corpus :
       /\ corpus[i].english = i
       /\ i # 2 => corpus[i].practiceCount = 0 /\ corpus[i].nextReviewDate = 0

TypeOK ==
  /\ mode \in {"DASHBOARD", "LEARN", "REVIEW"}
  /\ currentIndex \in 0..NItems
  /\ isInitializing \in BOOLEAN

====
